---- MODULE Spec2Model ----
(***************************************************************************)
(* CRUD persistence of rag_robot: the two MySQL tables of the schema       *)
(* script (prompt_template_table, document_table), the data access layer   *)
(* that the client SDK (promptApi, documentApi) talks to, and the storage  *)
(* clock that feeds the DATETIME columns.                                  *)
(*                                                                         *)
(* Text values are sequences of characters; NULL is the SQL NULL.          *)
(***************************************************************************)
EXTENDS Integers, Sequences, FiniteSets, TLC

\* ------------------------------------------------------------------ bounds
\* highest id AUTO_INCREMENT hands out in the model
MaxId == 3
\* last second the storage clock reaches
MaxClock == 1
\* number of API calls in one behaviour
MaxCalls == 2
\* largest skip / limit a list call is given
MaxSkip == 3
MaxLimit == 2
\* mutations the UI fires
MaxMutations == 1
\* pages the user opens
MaxVisits == 2
\* record requests and mutate calls of a page
MaxRequests == 3

\* ------------------------------------------------------------- the schema
NULL == <<"NULL">>
EMPTY == <<>>

Entities == {"prompt_template", "document"}

\* payload columns of the two tables
Columns(e) ==
  IF e = "prompt_template" THEN {"name", "description", "system_prompt"}
                           ELSE {"title", "doc"}

\* fields create() insists on
RequiredFields(e) ==
  IF e = "prompt_template" THEN {"name", "system_prompt"} ELSE {"doc"}

AllColumns(e) == {"id", "created_at", "updated_at"} \cup Columns(e)

\* a schema script that inserts no rows
SeedRowsNone(e) == <<>>

\* the INSERT ... VALUES rows of the schema script, abbreviated
SeedRows(e) ==
  IF e = "prompt_template"
  THEN << [system_prompt |-> <<"A", "I">>, name |-> <<"D", "f">>, description |-> <<"d", "1">>],
          [system_prompt |-> <<"C", "o">>, name |-> <<"C", "d">>, description |-> <<"d", "2">>] >>
  ELSE << [doc |-> <<"#", "P", "y", "Z">>, title |-> <<"P", "y", "Z">>],
          [doc |-> <<"#", "R", "A", "G">>, title |-> <<"R", "A", "G">>] >>

\* AUTO_INCREMENT done as MAX(id) + 1
AutoIncrementMax(ai, tbl) ==
  IF DOMAIN tbl = {} THEN 1
  ELSE (CHOOSE x \in DOMAIN tbl : \A y \in DOMAIN tbl : y <= x) + 1

\* AUTO_INCREMENT done as the lowest id no row holds
AutoIncrementLowestFree(ai, tbl) ==
  CHOOSE x \in 1..ai : x \notin DOMAIN tbl /\ \A y \in 1..(x - 1) : y \in DOMAIN tbl

\* id INT AUTO_INCREMENT PRIMARY KEY: the id the next INSERT gets is the
\* table's counter, whatever rows are left in the table
AutoIncrement(ai, tbl) == ai

\* INSERT with updated_at left at the zero date (no DEFAULT CURRENT_TIMESTAMP)
InsertedRowZeroUpdated(e, id, vals, t) ==
  [c \in AllColumns(e) |->
     CASE c = "id" -> id
       [] c = "created_at" -> t
       [] c = "updated_at" -> 0
       [] OTHER -> IF c \in DOMAIN vals THEN vals[c] ELSE NULL]

\* INSERT with created_at left at the zero date
InsertedRowZeroCreated(e, id, vals, t) ==
  [c \in AllColumns(e) |->
     CASE c = "id" -> id
       [] c = "created_at" -> 0
       [] c = "updated_at" -> t
       [] OTHER -> IF c \in DOMAIN vals THEN vals[c] ELSE NULL]

\* one row as INSERT stores it: the supplied columns, DEFAULT NULL for the
\* others, and DEFAULT CURRENT_TIMESTAMP for both timestamps
InsertedRow(e, id, vals, t) ==
  [c \in AllColumns(e) |->
     CASE c = "id" -> id
       [] c = "created_at" -> t
       [] c = "updated_at" -> t
       [] OTHER -> IF c \in DOMAIN vals THEN vals[c] ELSE NULL]

\* UPDATE that replaces the whole payload, blanking what SET leaves out
UpdatedRowReplace(row, set, t) ==
  LET new == [c \in DOMAIN row |->
                IF c \in DOMAIN set THEN set[c]
                ELSE IF c \in {"id", "created_at", "updated_at"} THEN row[c] ELSE NULL]
  IN IF new /= row THEN [new EXCEPT !["updated_at"] = t] ELSE row

\* UPDATE on a column without ON UPDATE CURRENT_TIMESTAMP
UpdatedRowNoStamp(row, set, t) ==
  [c \in DOMAIN row |-> IF c \in DOMAIN set THEN set[c] ELSE row[c]]

\* one row as UPDATE ... SET leaves it: the SET columns overwritten, every
\* other column kept, updated_at moved by ON UPDATE CURRENT_TIMESTAMP when
\* some column value really changed
UpdatedRow(row, set, t) ==
  LET new == [c \in DOMAIN row |-> IF c \in DOMAIN set THEN set[c] ELSE row[c]]
  IN IF new /= row THEN [new EXCEPT !["updated_at"] = t] ELSE row

\* the table after the schema script ran at second 0
SeedTable(e) ==
  [i \in 1..Len(SeedRows(e)) |-> InsertedRow(e, i, SeedRows(e)[i], 0)]

VARIABLES
  tables,    \* tables[e]: id -> row
  autoInc,   \* autoInc[e]: next AUTO_INCREMENT value of the table
  now,       \* CURRENT_TIMESTAMP, in whole seconds (DATETIME)
  resp,      \* the response to the latest API call
  issued,    \* issued[e]: ids INSERT has assigned so far
  removed,   \* removed[e]: ids a delete call has removed
  calls,     \* API calls made so far
  reqs,      \* reqs[c]: the call of client c in the update/delete race
  sdk,       \* the Client SDK call in progress
  log,       \* console entries of the Client SDK call in progress
  page,      \* the page the UI shows
  visits,    \* pages the user has opened so far
  srvRev,    \* srvRev[r]: writes the server has committed to resource r
  query,     \* query[r]: the UI's cached list query of resource r
  muts,      \* muts[m]: the UI's m-th mutation
  openDialog,  \* the page's dialog is open
  editing,   \* the id the dialog edits, 0 for null
  formData,  \* formData[f]: the text of form field f
  requests,  \* requests the page's buttons have sent
  gets,      \* the ids handleOpenDialog requested, the answer not yet in
  subs,      \* subs[n]: the n-th mutate call of the page
  mstatus,   \* mstatus[k]: the state useMutation k reports
  records    \* records[id]: the server's record of the shown resource

storeVars == <<tables, autoInc, now, resp, issued, removed, calls>>
raceVars == <<reqs>>
sdkVars == <<sdk, log>>
uiVars == <<page, visits, srvRev, query, muts>>
dlgVars == <<openDialog, editing, formData, requests, gets, subs, mstatus, records>>
vars == <<storeVars, raceVars, sdkVars, uiVars, dlgVars>>

NoResp ==
  [op |-> "none", entity |-> "none", id |-> 0, data |-> <<>>,
   skip |-> 0, limit |-> 0, kind |-> "ok", message |-> "", body |-> <<>>]

\* the two clients whose calls race
Clients == {1, 2}

\* no call of the client is in flight
IdleReq ==
  [st |-> "idle", op |-> "none", id |-> 0, data |-> <<>>, kind |-> "none",
   ord |-> 0, t |-> 0]

NoOutcome == [ok |-> TRUE, status |-> 0, data |-> <<>>, error |-> <<>>]

NoRequest == [method |-> "none", url |-> <<>>, params |-> <<>>, data |-> "none"]

\* no Client SDK call has been made
IdleCall ==
  [stage |-> "idle", api |-> "none", fn |-> "none", arg |-> <<>>,
   req |-> NoRequest, outcome |-> NoOutcome, passed |-> NoOutcome,
   result |-> [state |-> "pending", value |-> <<>>]]

\* the query keys of the three pages
Resources == {"documents", "prompts", "models"}

\* a list query that was never fetched
NoQuery ==
  [status |-> "pending", data |-> -1, invalidated |-> FALSE, fresh |-> FALSE,
   fetch |-> "none", payload |-> -1, raced |-> FALSE, failures |-> 0]

\* a mutation the UI has not fired
NoMutation == [st |-> "unused", res |-> "none"]

\* the decimal digits
Digit == <<"0", "1", "2", "3", "4", "5", "6", "7", "8", "9">>

\* the fields of the form in the dialog of page p
FormFields(p) ==
  IF p = "documents" THEN {"title", "doc"}
  ELSE IF p = "prompts" THEN {"name", "description", "system_prompt"}
  ELSE IF p = "models" THEN {"name", "description"}
  ELSE {}

\* the initial formData of page p, and what handleCloseDialog sets
Blank(p) == [f \in FormFields(p) |-> ""]

\* the three useMutation hooks of a page
Kinds == {"create", "update", "delete"}

\* a mutate call not made yet
NoSub == [st |-> "unused", kind |-> "none", id |-> 0, body |-> Blank("none"),
          observed |-> FALSE, cur |-> FALSE]

\* the text of every field of the record the server starts with under id i
RecText(i) == "r" \o Digit[i + 1]

\* the records 1 and 2 the server starts with, in the fields the form of
\* page p shows
SeedRecords(p) == [i \in 1..2 |-> [f \in FormFields(p) |-> RecText(i)]]

Init ==
  /\ tables = [e \in Entities |-> SeedTable(e)]
  /\ autoInc = [e \in Entities |-> Len(SeedRows(e)) + 1]
  /\ now = 0
  /\ resp = NoResp
  /\ issued = [e \in Entities |-> 1..Len(SeedRows(e))]
  /\ removed = [e \in Entities |-> {}]
  /\ calls = 0
  /\ reqs = [c \in Clients |-> IdleReq]
  /\ sdk = IdleCall
  /\ log = <<>>
  /\ page = "none"
  /\ visits = 0
  /\ srvRev = [r \in Resources |-> 0]
  /\ query = [r \in Resources |-> NoQuery]
  /\ muts = [m \in 1..MaxMutations |-> NoMutation]
  /\ openDialog = FALSE
  /\ editing = 0
  /\ formData = Blank("none")
  /\ requests = 0
  /\ gets = {}
  /\ subs = [n \in 1..MaxRequests |-> NoSub]
  /\ mstatus = [k \in Kinds |-> "idle"]
  /\ records = SeedRecords("none")

\* the storage clock advances
Tick ==
  /\ now < MaxClock
  /\ now' = now + 1
  /\ UNCHANGED <<tables, autoInc, resp, issued, removed, calls>>
  /\ UNCHANGED <<raceVars, sdkVars, uiVars, dlgVars>>

\* ------------------------------------------------------- data access layer
\* values a caller puts into a create body: a required field may be left
\* out, empty or filled; an optional field may be left out or filled
CreateValues(e, c) ==
  IF c \in RequiredFields(e) THEN {EMPTY, <<"a">>} ELSE {<<"a">>}

CreateInputs(e) ==
  UNION { { f \in [S -> {EMPTY, <<"a">>}] : \A c \in S : f[c] \in CreateValues(e, c) }
          : S \in SUBSET Columns(e) }

\* values a caller puts into an update body: any subset of the fields
UpdateInputs(e) ==
  UNION { [S -> {<<"b">>}] : S \in SUBSET Columns(e) }

Ids == 1..MaxId

\* create() that only asks for the required keys to be there
ValidCreatePresentOnly(e, fields) ==
  \A c \in RequiredFields(e) : c \in DOMAIN fields

\* create() accepts a body when every required field is present and non-empty
ValidCreate(e, fields) ==
  \A c \in RequiredFields(e) :
     c \in DOMAIN fields /\ fields[c] /= NULL /\ fields[c] /= EMPTY

\* the table without the row of that id
WithoutRow(tbl, id) == [i \in DOMAIN tbl \ {id} |-> tbl[i]]

RECURSIVE SortedIds(_)
\* the ids of a set in ascending order
SortedIds(S) ==
  IF S = {} THEN <<>>
  ELSE LET m == CHOOSE x \in S : \A y \in S : x <= y
       IN <<m>> \o SortedIds(S \ {m})

RECURSIVE Drop(_, _)
\* OFFSET n
Drop(s, n) == IF n = 0 \/ Len(s) = 0 THEN s ELSE Drop(Tail(s), n - 1)

RECURSIVE Take(_, _)
\* LIMIT n
Take(s, n) == IF n = 0 \/ Len(s) = 0 THEN <<>> ELSE <<Head(s)>> \o Take(Tail(s), n - 1)

\* the rows of a table in list order (id ascending)
OrderedRows(tbl) ==
  LET ids == SortedIds(DOMAIN tbl) IN [i \in 1..Len(ids) |-> tbl[ids[i]]]

\* characters of doc a preview carries
PreviewLen == 3

\* a preview that carries the whole doc
DocumentPreviewWhole(row) ==
  [id |-> row["id"], title |-> row["title"],
   doc_preview |-> row["doc"],
   created_at |-> row["created_at"], updated_at |-> row["updated_at"]]

\* DocumentPreview: the row with doc cut down to doc_preview
DocumentPreview(row) ==
  [id |-> row["id"], title |-> row["title"],
   doc_preview |-> Take(row["doc"], PreviewLen),
   created_at |-> row["created_at"], updated_at |-> row["updated_at"]]

\* list that cuts to limit before it skips
ListDocumentRowsLimitFirst(tbl, skip, limit) == Drop(Take(OrderedRows(tbl), limit), skip)

\* list(skip, limit) of documents
ListDocumentRows(tbl, skip, limit) == Take(Drop(OrderedRows(tbl), skip), limit)

\* count done as MAX(id)
CountRowsMaxId(tbl) ==
  IF DOMAIN tbl = {} THEN 0 ELSE CHOOSE x \in DOMAIN tbl : \A y \in DOMAIN tbl : y <= x

\* count() of documents
CountRows(tbl) == Cardinality(DOMAIN tbl)

\* keywords a caller searches for: "Python", "python", one no text holds,
\* and one that only updated rows hold
Keywords == {<<"P", "y">>, <<"p", "y">>, <<"x">>, <<"b">>}

\* the lower-case form of the letters that have one
LowerOf == [P |-> "p", R |-> "r", A |-> "a", G |-> "g", D |-> "d", C |-> "c", I |-> "i"]

\* a binary collation: every character compares as itself
CollateBin(text) == text

\* COLLATE utf8mb4_unicode_ci: texts compare with letter case folded
Collate(text) ==
  [i \in 1..Len(text) |-> IF text[i] \in DOMAIN LowerOf THEN LowerOf[text[i]] ELSE text[i]]

\* s begins with k
StartsWith(s, k) == Len(k) <= Len(s) /\ \A i \in 1..Len(k) : s[i] = k[i]

RECURSIVE Like(_, _)
\* s LIKE '%k%' on collated texts
Like(s, k) ==
  IF StartsWith(s, k) THEN TRUE
  ELSE IF Len(s) = 0 THEN FALSE
  ELSE Like(Tail(s), k)

\* the column value matches the keyword; NULL matches nothing
Matches(v, kw) == v /= NULL /\ Like(Collate(v), Collate(kw))

\* search(keyword) of documents: the rows whose title or doc matches
SearchDocumentRows(tbl, kw) ==
  LET hit(row) == Matches(row["title"], kw) \/ Matches(row["doc"], kw)
  IN SelectSeq(OrderedRows(tbl), hit)

\* the human-readable message of a response of that kind
Message(kind) ==
  CASE kind = "not_found" -> "record not found"
    [] kind = "validation_error" -> "required field missing or empty"
    [] OTHER -> ""

\* the payload a caller receives
Reply(op, e, id, data, kind, body) ==
  [op |-> op, entity |-> e, id |-> id, data |-> data,
   skip |-> 0, limit |-> 0, kind |-> kind, message |-> Message(kind), body |-> body]

\* create that hands an invalid body to storage and reports its error
DalCreateStorageError(e, tbl, ai, fields, t) ==
  IF ValidCreate(e, fields)
  THEN LET id == AutoIncrement(ai, tbl)
       IN [kind |-> "ok", id |-> id,
           tbl |-> (id :> InsertedRow(e, id, fields, t)) @@ tbl,
           ai |-> id + 1]
  ELSE [kind |-> "storage_error", id |-> 0, tbl |-> tbl, ai |-> ai + 1]

\* create(fields): the outcome, the assigned id, the table and counter after
DalCreate(e, tbl, ai, fields, t) ==
  IF ValidCreate(e, fields)
  THEN LET id == AutoIncrement(ai, tbl)
       IN [kind |-> "ok", id |-> id,
           tbl |-> (id :> InsertedRow(e, id, fields, t)) @@ tbl,
           ai |-> id + 1]
  ELSE [kind |-> "validation_error", id |-> 0, tbl |-> tbl, ai |-> ai]

\* get(id): the outcome and the record
DalGet(tbl, id) ==
  IF id \in DOMAIN tbl THEN [kind |-> "ok", body |-> tbl[id]]
                       ELSE [kind |-> "not_found", body |-> <<>>]

\* names a caller looks a prompt template up by: a seeded one, one that only
\* updated rows have, and one no row has
Names == {<<"D", "f">>, <<"b">>, <<"x">>}

\* get by name: the first record of that name
DalGetByName(tbl, name) ==
  LET ids == {i \in DOMAIN tbl : tbl[i]["name"] = name}
  IN IF ids = {} THEN [kind |-> "not_found", body |-> <<>>]
     ELSE [kind |-> "ok", body |-> tbl[Head(SortedIds(ids))]]

\* update that inserts the row when the id is absent
DalUpdateUpsert(tbl, id, partial, t) ==
  IF id \in DOMAIN tbl
  THEN [kind |-> "ok", tbl |-> [tbl EXCEPT ![id] = UpdatedRow(@, partial, t)]]
  ELSE [kind |-> "ok",
        tbl |-> (id :> [c \in {"id", "created_at", "updated_at"} \cup DOMAIN partial |->
                          CASE c = "id" -> id
                            [] c \in {"created_at", "updated_at"} -> t
                            [] OTHER -> partial[c]]) @@ tbl]

\* update(id, partial): the outcome and the table after
DalUpdate(tbl, id, partial, t) ==
  IF id \in DOMAIN tbl
  THEN [kind |-> "ok", tbl |-> [tbl EXCEPT ![id] = UpdatedRow(@, partial, t)]]
  ELSE [kind |-> "not_found", tbl |-> tbl]

\* delete that reports success when no row matched
DalDeleteSilent(tbl, id) ==
  [kind |-> "ok", tbl |-> WithoutRow(tbl, id)]

\* delete(id): the outcome and the table after
DalDelete(tbl, id) ==
  IF id \in DOMAIN tbl
  THEN [kind |-> "ok", tbl |-> WithoutRow(tbl, id)]
  ELSE [kind |-> "not_found", tbl |-> tbl]

\* POST /{resource}/create
Create(e, fields) ==
  LET r == DalCreate(e, tables[e], autoInc[e], fields, now) IN
  /\ calls < MaxCalls
  /\ r.kind = "ok" => r.id <= MaxId
  /\ calls' = calls + 1
  /\ tables' = [tables EXCEPT ![e] = r.tbl]
  /\ autoInc' = [autoInc EXCEPT ![e] = r.ai]
  /\ issued' = [issued EXCEPT ![e] = IF r.kind = "ok" THEN @ \cup {r.id} ELSE @]
  /\ resp' = Reply("create", e, r.id, fields, r.kind, <<>>)
  /\ UNCHANGED <<now, removed>>
  /\ UNCHANGED <<raceVars, sdkVars, uiVars, dlgVars>>

\* GET /{resource}/{id}
Get(e, id) ==
  LET r == DalGet(tables[e], id) IN
  /\ calls < MaxCalls
  /\ calls' = calls + 1
  /\ resp' = Reply("get", e, id, <<>>, r.kind, r.body)
  /\ UNCHANGED <<tables, autoInc, now, issued, removed>>
  /\ UNCHANGED <<raceVars, sdkVars, uiVars, dlgVars>>

\* PUT /{resource}/{id}
Update(e, id, partial) ==
  LET r == DalUpdate(tables[e], id, partial, now) IN
  /\ calls < MaxCalls
  /\ calls' = calls + 1
  /\ tables' = [tables EXCEPT ![e] = r.tbl]
  /\ resp' = Reply("update", e, id, partial, r.kind, <<>>)
  /\ UNCHANGED <<autoInc, now, issued, removed>>
  /\ UNCHANGED <<raceVars, sdkVars, uiVars, dlgVars>>

\* DELETE that cascades to the row of the same id in the other table
DeleteCascade(e, id) ==
  LET r == DalDelete(tables[e], id) IN
  /\ calls < MaxCalls
  /\ calls' = calls + 1
  /\ tables' = [f \in Entities |->
                  IF f = e THEN r.tbl
                  ELSE IF r.kind = "ok" THEN WithoutRow(tables[f], id) ELSE tables[f]]
  /\ removed' = [removed EXCEPT ![e] = IF r.kind = "ok" THEN @ \cup {id} ELSE @]
  /\ resp' = Reply("delete", e, id, <<>>, r.kind, <<>>)
  /\ UNCHANGED <<autoInc, now, issued>>
  /\ UNCHANGED <<raceVars, sdkVars, uiVars, dlgVars>>

\* DELETE /{resource}/{id}
Delete(e, id) ==
  LET r == DalDelete(tables[e], id) IN
  /\ calls < MaxCalls
  /\ calls' = calls + 1
  /\ tables' = [tables EXCEPT ![e] = r.tbl]
  /\ removed' = [removed EXCEPT ![e] = IF r.kind = "ok" THEN @ \cup {id} ELSE @]
  /\ resp' = Reply("delete", e, id, <<>>, r.kind, <<>>)
  /\ UNCHANGED <<autoInc, now, issued>>
  /\ UNCHANGED <<raceVars, sdkVars, uiVars, dlgVars>>

\* GET /prompts/by_name/{name}
GetByName(name) ==
  LET r == DalGetByName(tables["prompt_template"], name) IN
  /\ calls < MaxCalls
  /\ calls' = calls + 1
  /\ resp' = Reply("get_by_name", "prompt_template", 0, name, r.kind, r.body)
  /\ UNCHANGED <<tables, autoInc, now, issued, removed>>
  /\ UNCHANGED <<raceVars, sdkVars, uiVars, dlgVars>>

\* GET /documents/list?skip=&limit=
ListDocuments(skip, limit) ==
  /\ calls < MaxCalls
  /\ calls' = calls + 1
  /\ resp' = [Reply("list", "document", 0, <<>>, "ok",
                    LET rows == ListDocumentRows(tables["document"], skip, limit)
                    IN [i \in 1..Len(rows) |-> DocumentPreview(rows[i])])
              EXCEPT !.skip = skip, !.limit = limit]
  /\ UNCHANGED <<tables, autoInc, now, issued, removed>>
  /\ UNCHANGED <<raceVars, sdkVars, uiVars, dlgVars>>

\* GET /prompts/list
ListPrompts ==
  /\ calls < MaxCalls
  /\ calls' = calls + 1
  /\ resp' = Reply("list", "prompt_template", 0, <<>>, "ok",
                   OrderedRows(tables["prompt_template"]))
  /\ UNCHANGED <<tables, autoInc, now, issued, removed>>
  /\ UNCHANGED <<raceVars, sdkVars, uiVars, dlgVars>>

\* GET /documents/search?keyword=
Search(kw) ==
  /\ calls < MaxCalls
  /\ calls' = calls + 1
  /\ resp' = Reply("search", "document", 0, kw, "ok",
                   LET rows == SearchDocumentRows(tables["document"], kw)
                   IN [i \in 1..Len(rows) |-> DocumentPreview(rows[i])])
  /\ UNCHANGED <<tables, autoInc, now, issued, removed>>
  /\ UNCHANGED <<raceVars, sdkVars, uiVars, dlgVars>>

\* GET /documents/count
Count ==
  /\ calls < MaxCalls
  /\ calls' = calls + 1
  /\ resp' = Reply("count", "document", 0, <<>>, "ok", CountRows(tables["document"]))
  /\ UNCHANGED <<tables, autoInc, now, issued, removed>>
  /\ UNCHANGED <<raceVars, sdkVars, uiVars, dlgVars>>

Next ==
  \/ Tick
  \/ \E e \in Entities : \E fields \in CreateInputs(e) : Create(e, fields)
  \/ \E e \in Entities, id \in Ids : Get(e, id)
  \/ \E e \in Entities, id \in Ids : \E partial \in UpdateInputs(e) : Update(e, id, partial)
  \/ \E e \in Entities, id \in Ids : Delete(e, id)
  \/ \E skip \in 0..MaxSkip, limit \in 0..MaxLimit : ListDocuments(skip, limit)
  \/ ListPrompts
  \/ Count
  \/ \E kw \in Keywords : Search(kw)
  \/ \E name \in Names : GetByName(name)

Spec == Init /\ [][Next]_vars

\* ------------------------------------------- the prompt template scenario
\* create, get, update, delete and get again of one prompt template, while
\* the clock runs and another client writes documents

\* the body the scenario creates: name of the first seed row, and a
\* system_prompt that is the beginning of that row's
ScenarioBody == [name |-> <<"D", "f">>, system_prompt |-> <<"A">>]

\* the body of the scenario's update
ScenarioUpdate == [description |-> <<"u">>]

ScnCreate ==
  LET r == DalCreate("prompt_template", tables["prompt_template"],
                     autoInc["prompt_template"], ScenarioBody, now) IN
  /\ calls = 0
  /\ calls' = 1
  /\ tables' = [tables EXCEPT !["prompt_template"] = r.tbl]
  /\ autoInc' = [autoInc EXCEPT !["prompt_template"] = r.ai]
  /\ issued' = [issued EXCEPT !["prompt_template"] = IF r.kind = "ok" THEN @ \cup {r.id} ELSE @]
  /\ resp' = Reply("create", "prompt_template", r.id, ScenarioBody, r.kind, <<>>)
  /\ UNCHANGED <<now, removed>>
  /\ UNCHANGED <<raceVars, sdkVars, uiVars, dlgVars>>

\* get of the id the create returned, after the create and after the delete
ScnGet ==
  LET r == DalGet(tables["prompt_template"], resp.id) IN
  /\ calls \in {1, 4}
  /\ calls' = calls + 1
  /\ resp' = Reply("get", "prompt_template", resp.id, <<>>, r.kind, r.body)
  /\ UNCHANGED <<tables, autoInc, now, issued, removed>>
  /\ UNCHANGED <<raceVars, sdkVars, uiVars, dlgVars>>

ScnUpdate ==
  LET r == DalUpdate(tables["prompt_template"], resp.id, ScenarioUpdate, now) IN
  /\ calls = 2
  /\ calls' = 3
  /\ tables' = [tables EXCEPT !["prompt_template"] = r.tbl]
  /\ resp' = Reply("update", "prompt_template", resp.id, ScenarioUpdate, r.kind, <<>>)
  /\ UNCHANGED <<autoInc, now, issued, removed>>
  /\ UNCHANGED <<raceVars, sdkVars, uiVars, dlgVars>>

ScnDelete ==
  LET r == DalDelete(tables["prompt_template"], resp.id) IN
  /\ calls = 3
  /\ calls' = 4
  /\ tables' = [tables EXCEPT !["prompt_template"] = r.tbl]
  /\ removed' = [removed EXCEPT !["prompt_template"] = IF r.kind = "ok" THEN @ \cup {resp.id} ELSE @]
  /\ resp' = Reply("delete", "prompt_template", resp.id, <<>>, r.kind, <<>>)
  /\ UNCHANGED <<autoInc, now, issued>>
  /\ UNCHANGED <<raceVars, sdkVars, uiVars, dlgVars>>

\* the bodies the other client sends
OtherBodies == {[title |-> <<"a">>, doc |-> <<"a">>]}
OtherPartials == {[title |-> <<"b">>]}

\* another client creates a document
OtherCreate(fields) ==
  LET r == DalCreate("document", tables["document"], autoInc["document"], fields, now) IN
  /\ r.kind = "ok" /\ r.id <= MaxId
  /\ tables' = [tables EXCEPT !["document"] = r.tbl]
  /\ autoInc' = [autoInc EXCEPT !["document"] = r.ai]
  /\ issued' = [issued EXCEPT !["document"] = @ \cup {r.id}]
  /\ UNCHANGED <<now, resp, removed, calls>>
  /\ UNCHANGED <<raceVars, sdkVars, uiVars, dlgVars>>

\* another client updates a document
OtherUpdate(id, partial) ==
  LET r == DalUpdate(tables["document"], id, partial, now) IN
  /\ r.kind = "ok"
  /\ tables' = [tables EXCEPT !["document"] = r.tbl]
  /\ UNCHANGED <<autoInc, now, resp, issued, removed, calls>>
  /\ UNCHANGED <<raceVars, sdkVars, uiVars, dlgVars>>

\* another client deletes a document
OtherDelete(id) ==
  LET r == DalDelete(tables["document"], id) IN
  /\ r.kind = "ok"
  /\ tables' = [tables EXCEPT !["document"] = r.tbl]
  /\ removed' = [removed EXCEPT !["document"] = @ \cup {id}]
  /\ UNCHANGED <<autoInc, now, resp, issued, calls>>
  /\ UNCHANGED <<raceVars, sdkVars, uiVars, dlgVars>>

ScenarioNext ==
  \/ Tick
  \/ ScnCreate
  \/ ScnGet
  \/ ScnUpdate
  \/ ScnDelete
  \/ \E fields \in OtherBodies : OtherCreate(fields)
  \/ \E id \in Ids : \E partial \in OtherPartials : OtherUpdate(id, partial)
  \/ \E id \in Ids : OtherDelete(id)

SpecScenario == Init /\ [][ScenarioNext]_vars

\* ------------------------------------------- two calls racing on one id
\* two clients each send an update or a delete of the same document; the
\* service runs each call to completion, in either order

\* the value client c writes into every field it supplies
RaceValue(c) == IF c = 1 THEN <<"b">> ELSE <<"c">>

\* the partial bodies client c may send
RaceInputs(c) == UNION {[S -> {RaceValue(c)}] : S \in SUBSET Columns("document")}

\* the document table both calls arrive at
RaceBase == SeedTable("document")

\* the effect of one call on the table, run to completion at second t
RaceApply(tbl, r, t) ==
  IF r.op = "update" THEN DalUpdate(tbl, r.id, r.data, t) ELSE DalDelete(tbl, r.id)

\* client c sends its call; the second call names the id of the first
RaceSend(c, op, id, data) ==
  /\ reqs[c].st = "idle"
  /\ \A d \in Clients \ {c} : reqs[d].st \in {"idle", "sent"}
  /\ \A d \in Clients \ {c} : reqs[d].st = "sent" => reqs[d].id = id
  /\ reqs' = [reqs EXCEPT ![c] = [IdleReq EXCEPT !.st = "sent", !.op = op,
                                                  !.id = id, !.data = data]]
  /\ UNCHANGED <<storeVars, sdkVars, uiVars, dlgVars>>

\* a service that works on the rows the call read when it arrived
RaceServeStale(c) ==
  LET r == RaceApply(RaceBase, reqs[c], now)
      id == reqs[c].id
      n == Cardinality({d \in Clients : reqs[d].ord > 0})
      cur == tables["document"] IN
  /\ \A d \in Clients : reqs[d].st /= "idle"
  /\ reqs[c].st = "sent"
  /\ tables' = [tables EXCEPT !["document"] =
       IF r.kind /= "ok" THEN cur
       ELSE IF reqs[c].op = "delete" THEN WithoutRow(cur, id)
       ELSE [i \in DOMAIN cur \cup {id} |-> IF i = id THEN r.tbl[id] ELSE cur[i]]]
  /\ removed' = [removed EXCEPT !["document"] =
       IF reqs[c].op = "delete" /\ r.kind = "ok" THEN @ \cup {id} ELSE @]
  /\ reqs' = [reqs EXCEPT ![c] = [@ EXCEPT !.st = "served", !.kind = r.kind,
                                            !.ord = n + 1, !.t = now]]
  /\ UNCHANGED <<autoInc, now, resp, issued, calls, sdkVars, uiVars, dlgVars>>

\* the service runs the call of client c to completion against the store
RaceServe(c) ==
  LET r == RaceApply(tables["document"], reqs[c], now)
      id == reqs[c].id
      n == Cardinality({d \in Clients : reqs[d].ord > 0}) IN
  /\ \A d \in Clients : reqs[d].st /= "idle"
  /\ reqs[c].st = "sent"
  /\ tables' = [tables EXCEPT !["document"] = r.tbl]
  /\ removed' = [removed EXCEPT !["document"] =
       IF reqs[c].op = "delete" /\ r.kind = "ok" THEN @ \cup {id} ELSE @]
  /\ reqs' = [reqs EXCEPT ![c] = [@ EXCEPT !.st = "served", !.kind = r.kind,
                                            !.ord = n + 1, !.t = now]]
  /\ UNCHANGED <<autoInc, now, resp, issued, calls, sdkVars, uiVars, dlgVars>>

\* client c receives the response of its call
RaceReceive(c) ==
  /\ reqs[c].st = "served"
  /\ reqs' = [reqs EXCEPT ![c] = [@ EXCEPT !.st = "done"]]
  /\ UNCHANGED <<storeVars, sdkVars, uiVars, dlgVars>>

RaceNext ==
  \/ Tick
  \/ \E c \in Clients, id \in Ids : RaceSend(c, "delete", id, <<>>)
  \/ \E c \in Clients, id \in Ids : \E data \in RaceInputs(c) : RaceSend(c, "update", id, data)
  \/ \E c \in Clients : RaceServe(c)
  \/ \E c \in Clients : RaceReceive(c)

SpecRace == Init /\ [][RaceNext]_vars

\* ------------------------------------------------------- the Client SDK
\* one call of a wrapper: the wrapper builds the request, the request
\* interceptor runs, the transport settles, the response interceptor runs,
\* and the wrapper's promise settles

Apis == {"promptApi", "modelApi", "documentApi"}

\* the methods of each wrapper object
Fns(api) ==
  CASE api = "promptApi" -> {"list", "get", "getByName", "create", "update", "delete"}
    [] api = "modelApi" -> {"list", "get", "check", "create", "update", "delete"}
    [] api = "documentApi" -> {"list", "count", "search", "get", "create", "update", "delete"}

\* the first path segment each wrapper object uses
ResourceOf(api) ==
  CASE api = "promptApi" -> "prompts"
    [] api = "modelApi" -> "models"
    [] api = "documentApi" -> "documents"

\* names and keywords a caller passes
Texts == {"llama", "py"}

\* the defaults of documentApi.list's parameters
DefaultSkip == 0
DefaultLimit == 100

\* no argument given: skip and limit are undefined
NoArg == [id |-> 0, text |-> "", skip |-> -1, limit |-> -1, body |-> "none"]

\* the arguments a caller may pass to a wrapper; modelApi.get declares a
\* name and the Models page passes it a record's id
SdkArgs(api, fn) ==
  CASE fn = "list" /\ api = "documentApi" ->
         {NoArg} \cup {[NoArg EXCEPT !.skip = s, !.limit = l] :
                         s \in 0..MaxSkip, l \in 0..MaxLimit}
    [] fn = "list" /\ api /= "documentApi" -> {NoArg}
    [] fn = "count" -> {NoArg}
    [] fn = "get" /\ api = "modelApi" ->
         {[NoArg EXCEPT !.text = n] : n \in Texts} \cup {[NoArg EXCEPT !.id = i] : i \in Ids}
    [] fn = "get" /\ api /= "modelApi" -> {[NoArg EXCEPT !.id = i] : i \in Ids}
    [] fn \in {"getByName", "check", "search"} -> {[NoArg EXCEPT !.text = n] : n \in Texts}
    [] fn = "create" -> {[NoArg EXCEPT !.body = "body"]}
    [] fn = "update" -> {[NoArg EXCEPT !.id = i, !.body = "body"] : i \in Ids}
    [] fn = "delete" -> {[NoArg EXCEPT !.id = i] : i \in Ids}

\* a number as a template literal writes it into a path
RECURSIVE IdText(_)
IdText(i) == IF i < 10 THEN Digit[i + 1] ELSE IdText(i \div 10) \o Digit[(i % 10) + 1]

\* a wrapper that sends every write with POST
MethodWritesPost(api, fn) ==
  IF fn \in {"create", "update", "delete"} THEN "post" ELSE "get"

\* the apiClient method the wrapper calls
Method(api, fn) ==
  CASE fn = "create" -> "post"
    [] fn = "update" -> "put"
    [] fn = "delete" -> "delete"
    [] OTHER -> "get"

\* the path the wrapper requests, split at "/"
Url(api, fn, a) ==
  LET res == ResourceOf(api) IN
  CASE fn = "list" -> IF api = "modelApi" THEN <<res, "">> ELSE <<res, "list">>
    [] fn = "get" /\ api = "modelApi" -> IF a.text /= "" THEN <<res, a.text>> ELSE <<res, IdText(a.id)>>
    [] fn = "get" /\ api /= "modelApi" -> <<res, IdText(a.id)>>
    [] fn = "getByName" -> <<res, "by_name", a.text>>
    [] fn = "check" -> <<res, "check", a.text>>
    [] fn = "count" -> <<res, "count">>
    [] fn = "search" -> <<res, "search">>
    [] fn = "create" -> <<res, "create">>
    [] fn \in {"update", "delete"} -> <<res, IdText(a.id)>>

NoParams == [n \in {} |-> 0]

\* the query parameters the wrapper passes
Params(api, fn, a) ==
  CASE fn = "list" /\ api = "documentApi" ->
         [skip |-> IF a.skip = -1 THEN DefaultSkip ELSE a.skip,
          limit |-> IF a.limit = -1 THEN DefaultLimit ELSE a.limit]
    [] fn = "search" -> [keyword |-> a.text]
    [] OTHER -> NoParams

\* the request config the wrapper hands to apiClient
Request(api, fn, a) ==
  [method |-> Method(api, fn), url |-> Url(api, fn, a),
   params |-> Params(api, fn, a), data |-> a.body]

\* list wrappers of modelApi and documentApi run inside try/catch
HasTryCatch(api, fn) == fn = "list" /\ api \in {"modelApi", "documentApi"}

\* a request interceptor that replaces the parameters by the timestamp
RequestUseOnlyStamp(config, t) ==
  IF config.method = "get" THEN [config EXCEPT !.params = [_t |-> t]] ELSE config

\* the request interceptor: GET requests get the parameter _t
RequestUse(config, t) ==
  IF config.method = "get"
  THEN [config EXCEPT !.params =
          [n \in DOMAIN config.params \cup {"_t"} |->
             IF n = "_t" THEN t ELSE config.params[n]]]
  ELSE config

\* the errors the transport may settle with: a response with an error
\* status, no response, or a request that could not be set up
ApiErrors ==
  {[branch |-> "response", status |-> 404, kind |-> "not_found"],
   [branch |-> "response", status |-> 422, kind |-> "validation_error"],
   [branch |-> "response", status |-> 500, kind |-> "internal"],
   [branch |-> "request", status |-> 0, kind |-> "none"],
   [branch |-> "config", status |-> 0, kind |-> "none"]}

NoError == [branch |-> "none", status |-> 0, kind |-> "none"]

\* response.data of a successful call
SdkData(api, fn) ==
  CASE fn = "list" /\ api = "modelApi" -> [models |-> [rows |-> "models"]]
    [] fn = "count" -> [total |-> [rows |-> "count"]]
    [] fn = "check" -> [exists |-> [rows |-> "exists"]]
    [] OTHER -> [rows |-> ResourceOf(api)]

\* what the transport may settle with
SdkOutcomes(api, fn) ==
  {[ok |-> TRUE, status |-> 200, data |-> SdkData(api, fn), error |-> NoError]}
  \cup {[ok |-> FALSE, status |-> e.status, data |-> <<>>, error |-> e] : e \in ApiErrors}

\* a response interceptor that resolves with the error
ResponseUseResolved(outcome) == [outcome EXCEPT !.ok = TRUE]

\* the response interceptor returns the response, or rejects with the error
ResponseUse(outcome) == outcome

\* the console entry the response interceptor writes
ResponseLog(outcome) ==
  IF outcome.ok THEN "log: Response"
  ELSE IF outcome.error.branch = "response" THEN "error: API Error status"
  ELSE IF outcome.error.branch = "request" THEN "error: API Error: No response received"
  ELSE "error: API Error message"

\* the value a wrapper returns from response.data
Unwrap(api, fn, data) ==
  CASE fn = "list" /\ api = "modelApi" -> data.models
    [] fn = "count" -> data.total
    [] fn = "check" -> data.exists
    [] OTHER -> data

\* a list wrapper whose catch block returns an empty list
SettleCatchEmpty(api, fn, passed) ==
  IF passed.ok THEN [state |-> "fulfilled", value |-> Unwrap(api, fn, passed.data)]
  ELSE IF HasTryCatch(api, fn) THEN [state |-> "fulfilled", value |-> <<>>]
  ELSE [state |-> "rejected", value |-> passed.error]

\* how the wrapper's promise settles: await throws the rejection, and a
\* catch block rethrows it
Settle(api, fn, passed) ==
  IF passed.ok THEN [state |-> "fulfilled", value |-> Unwrap(api, fn, passed.data)]
  ELSE [state |-> "rejected", value |-> passed.error]

\* the UI calls a wrapper
SdkCall(api, fn, a) ==
  /\ sdk.stage \in {"idle", "settled"}
  /\ sdk' = [IdleCall EXCEPT !.stage = "request", !.api = api, !.fn = fn,
                             !.arg = a, !.req = Request(api, fn, a)]
  /\ log' = IF HasTryCatch(api, fn) THEN <<"log: Fetching">> ELSE <<>>
  /\ UNCHANGED <<storeVars, raceVars, uiVars, dlgVars>>

RequestInterceptor ==
  /\ sdk.stage = "request"
  /\ sdk' = [sdk EXCEPT !.stage = "sent", !.req = RequestUse(sdk.req, now)]
  /\ log' = Append(log, "log: Request")
  /\ UNCHANGED <<storeVars, raceVars, uiVars, dlgVars>>

\* the HTTP exchange settles
Transport(outcome) ==
  /\ sdk.stage = "sent"
  /\ outcome \in SdkOutcomes(sdk.api, sdk.fn)
  /\ sdk' = [sdk EXCEPT !.stage = "responded", !.outcome = outcome]
  /\ UNCHANGED <<log, storeVars, raceVars, uiVars, dlgVars>>

ResponseInterceptor ==
  /\ sdk.stage = "responded"
  /\ sdk' = [sdk EXCEPT !.stage = "intercepted", !.passed = ResponseUse(sdk.outcome)]
  /\ log' = Append(log, ResponseLog(sdk.outcome))
  /\ UNCHANGED <<storeVars, raceVars, uiVars, dlgVars>>

\* the wrapper's promise settles
WrapperSettle ==
  /\ sdk.stage = "intercepted"
  /\ sdk' = [sdk EXCEPT !.stage = "settled",
                         !.result = Settle(sdk.api, sdk.fn, sdk.passed)]
  /\ log' = IF ~HasTryCatch(sdk.api, sdk.fn) THEN log
            ELSE IF sdk.passed.ok THEN Append(log, "log: response")
            ELSE Append(log, "error: Failed to fetch")
  /\ UNCHANGED <<storeVars, raceVars, uiVars, dlgVars>>

ClientNext ==
  \/ Tick
  \/ \E api \in Apis : \E fn \in Fns(api) : \E a \in SdkArgs(api, fn) : SdkCall(api, fn, a)
  \/ RequestInterceptor
  \/ \E api \in Apis : \E fn \in Fns(api) : \E outcome \in SdkOutcomes(api, fn) : Transport(outcome)
  \/ ResponseInterceptor
  \/ WrapperSettle

SpecClient == Init /\ [][ClientNext]_vars

\* ------------------------------------------------------------- the UI
\* the three pages, each with a cached list query and its mutations; the
\* server's list of a resource is abstracted to the number of writes the
\* server has committed to it

\* staleTime of the Documents list query, in milliseconds
DocumentsStaleTime == 60000

\* staleTime of each list query; the QueryClient's default is 0
StaleTime(r) == IF r = "documents" THEN DocumentsStaleTime ELSE 0

\* the query is stale: no data, invalidated, or older than its staleTime
Stale(q) == q.data = -1 \/ q.invalidated \/ ~q.fresh

\* attempts a list query repeats after its first one failed: retry of the
\* Documents query, and the QueryClient's default
DocumentsRetry == 2
DefaultRetry == 3

\* a Documents query left with the default number of retries
RetryDefault(r) == DefaultRetry

Retry(r) == IF r = "documents" THEN DocumentsRetry ELSE DefaultRetry

\* what the page renders: the loading text while there is no data yet, the
\* error alert while the query holds an error, else the table, the create
\* button and the dialog
View(q) ==
  IF q.status = "pending" THEN "loading"
  ELSE IF q.status = "error" THEN "error"
  ELSE "list"

\* a new fetch of the query starts; a query without data is pending again
StartFetch(q) ==
  [q EXCEPT !.fetch = "sent", !.payload = -1, !.raced = FALSE, !.failures = 0,
            !.status = IF q.data = -1 THEN "pending" ELSE @]

\* an invalidation that leaves a query alone while its data is fresh
InvalidateQueriesIfStale(q, active) ==
  IF q.fresh THEN q
  ELSE IF active THEN StartFetch([q EXCEPT !.invalidated = TRUE])
  ELSE [q EXCEPT !.invalidated = TRUE, !.raced = @ \/ q.fetch /= "none"]

\* queryClient.invalidateQueries on one query: it is marked invalidated;
\* a query the shown page observes is refetched at once, a fetch in flight
\* being cancelled; a query no page observes keeps the fetch it has
InvalidateQueries(q, active) ==
  IF active THEN StartFetch([q EXCEPT !.invalidated = TRUE])
  ELSE [q EXCEPT !.invalidated = TRUE, !.raced = @ \/ q.fetch /= "none"]

\* the query key each page's mutations invalidate
InvalidatedKey(res) == res

\* the user opens page p: its query is fetched unless data is fresh or a
\* fetch is already in flight
Navigate(p) ==
  /\ p /= page
  /\ visits < MaxVisits
  /\ visits' = visits + 1
  /\ page' = p
  /\ query' = [query EXCEPT ![p] =
       IF @.fetch = "none" /\ Stale(@) THEN StartFetch(@) ELSE @]
  /\ UNCHANGED <<srvRev, muts, storeVars, raceVars, sdkVars, dlgVars>>

\* the window regains focus: a stale query of the shown page is refetched
Focus ==
  /\ page \in Resources
  /\ query[page].fetch = "none" /\ Stale(query[page])
  /\ query' = [query EXCEPT ![page] = StartFetch(@)]
  /\ UNCHANGED <<page, visits, srvRev, muts, storeVars, raceVars, sdkVars, dlgVars>>

\* the staleTime of the data passes
Expire(r) ==
  /\ query[r].fresh
  /\ query' = [query EXCEPT ![r] = [@ EXCEPT !.fresh = FALSE]]
  /\ UNCHANGED <<page, visits, srvRev, muts, storeVars, raceVars, sdkVars, dlgVars>>

\* the server answers the list request with its list
FetchServe(r) ==
  /\ query[r].fetch = "sent"
  /\ query' = [query EXCEPT ![r] = [@ EXCEPT !.fetch = "served", !.payload = srvRev[r]]]
  /\ UNCHANGED <<page, visits, srvRev, muts, storeVars, raceVars, sdkVars, dlgVars>>

\* an attempt of the list request fails and the query tries again
FetchRetry(r) ==
  /\ query[r].fetch = "sent"
  /\ query[r].failures < Retry(r)
  /\ query' = [query EXCEPT ![r] = [@ EXCEPT !.failures = @ + 1]]
  /\ UNCHANGED <<page, visits, srvRev, muts, storeVars, raceVars, sdkVars, dlgVars>>

\* the last attempt of the list request fails: the query holds the error
FetchFail(r) ==
  /\ query[r].fetch = "sent"
  /\ query[r].failures >= Retry(r)
  /\ query' = [query EXCEPT ![r] = [@ EXCEPT !.fetch = "none", !.status = "error",
                                              !.failures = @ + 1]]
  /\ UNCHANGED <<page, visits, srvRev, muts, storeVars, raceVars, sdkVars, dlgVars>>

\* every attempt of the list request fails: the retries and the last
\* failure in one step, for the specifications that do not look at them
FetchGiveUp(r) ==
  /\ query[r].fetch = "sent"
  /\ query[r].failures = 0
  /\ query' = [query EXCEPT ![r] = [@ EXCEPT !.fetch = "none", !.status = "error",
                                              !.failures = Retry(r) + 1]]
  /\ UNCHANGED <<page, visits, srvRev, muts, storeVars, raceVars, sdkVars, dlgVars>>

\* the list arrives and becomes the query's data
FetchDone(r) ==
  /\ query[r].fetch = "served"
  /\ query' = [query EXCEPT ![r] =
       [@ EXCEPT !.fetch = "none", !.status = "success", !.data = query[r].payload,
                 !.payload = -1, !.failures = 0, !.invalidated = FALSE, !.fresh = StaleTime(r) > 0]]
  /\ UNCHANGED <<page, visits, srvRev, muts, storeVars, raceVars, sdkVars, dlgVars>>

\* the user fires createMutation, updateMutation or deleteMutation from the
\* list the page shows; the three differ in the request they send, not in
\* the query their onSuccess invalidates
Mutate(m) ==
  /\ page \in Resources
  /\ View(query[page]) = "list"
  /\ muts[m].st = "unused"
  /\ \A k \in 1..(m - 1) : muts[k].st /= "unused"
  /\ muts' = [muts EXCEPT ![m] = [st |-> "sent", res |-> page]]
  /\ UNCHANGED <<page, visits, srvRev, query, storeVars, raceVars, sdkVars, dlgVars>>

\* the server commits the write
MutationCommit(m) ==
  /\ muts[m].st = "sent"
  /\ muts' = [muts EXCEPT ![m] = [@ EXCEPT !.st = "committed"]]
  /\ srvRev' = [srvRev EXCEPT ![muts[m].res] = @ + 1]
  /\ UNCHANGED <<page, visits, query, storeVars, raceVars, sdkVars, dlgVars>>

\* the server rejects the write
MutationReject(m) ==
  /\ muts[m].st = "sent"
  /\ muts' = [muts EXCEPT ![m] = [NoMutation EXCEPT !.st = "failed"]]
  /\ UNCHANGED <<page, visits, srvRev, query, storeVars, raceVars, sdkVars, dlgVars>>

\* the response of the committed write arrives: onSuccess
MutationSuccess(m) ==
  LET key == InvalidatedKey(muts[m].res) IN
  /\ muts[m].st = "committed"
  /\ muts' = [muts EXCEPT ![m] = [NoMutation EXCEPT !.st = "done"]]
  /\ query' = [query EXCEPT ![key] = InvalidateQueries(@, page = key)]
  /\ UNCHANGED <<page, visits, srvRev, storeVars, raceVars, sdkVars, dlgVars>>

UiNext ==
  \/ \E p \in Resources : Navigate(p)
  \/ Focus
  \/ \E r \in Resources : Expire(r)
  \/ \E r \in Resources : FetchServe(r)
  \/ \E r \in Resources : FetchGiveUp(r)
  \/ \E r \in Resources : FetchDone(r)
  \/ \E m \in 1..MaxMutations : Mutate(m)
  \/ \E m \in 1..MaxMutations : MutationCommit(m)
  \/ \E m \in 1..MaxMutations : MutationReject(m)
  \/ \E m \in 1..MaxMutations : MutationSuccess(m)

SpecUI == Init /\ [][UiNext]_vars

\* the list queries alone, attempt by attempt
ListNext ==
  \/ \E p \in Resources : Navigate(p)
  \/ Focus
  \/ \E r \in Resources : Expire(r)
  \/ \E r \in Resources : FetchServe(r)
  \/ \E r \in Resources : FetchRetry(r)
  \/ \E r \in Resources : FetchFail(r)
  \/ \E r \in Resources : FetchDone(r)

SpecList == Init /\ [][ListNext]_vars

\* ------------------------------------------------ the pages' dialogs
\* One page stays mounted; its dialog state, the record fetches of
\* handleOpenDialog, its three mutations and the server's records of its
\* resource. Texts are "" (empty), "u" (typed by the user), "r1", "r2" (the
\* stored records) and "o" (written by another client).

\* the page component mounts: useState's initial values, the list query
Mount(p) ==
  /\ page = "none"
  /\ visits < MaxVisits
  /\ visits' = visits + 1
  /\ page' = p
  /\ query' = [query EXCEPT ![p] = StartFetch(@)]
  /\ openDialog' = FALSE
  /\ editing' = 0
  /\ formData' = Blank(p)
  /\ records' = SeedRecords(p)
  /\ UNCHANGED <<requests, gets, subs, mstatus, srvRev, muts, storeVars, raceVars, sdkVars>>

\* the page shows its list, with the buttons and the dialog
ListShown == page \in Resources /\ View(query[page]) = "list"

\* the ids of the rows the list offers an edit and a delete button for
RowIds == DOMAIN SeedRecords(page)

\* the dialog opens: no mutation in flight was called from this opening
Opened == [n \in 1..MaxRequests |-> [subs[n] EXCEPT !.cur = FALSE]]

\* handleOpenDialog() from the create button
HandleOpenCreate ==
  /\ ListShown /\ ~openDialog
  /\ editing' = 0
  /\ formData' = Blank(page)
  /\ openDialog' = TRUE
  /\ subs' = Opened
  /\ UNCHANGED <<requests, gets, mstatus, records, uiVars, storeVars, raceVars, sdkVars>>

\* handleOpenDialog(id) from a row's edit button: the record is requested
\* and the dialog opens with the form as it is
HandleOpenEdit(id) ==
  /\ ListShown /\ ~openDialog
  /\ requests < MaxRequests
  /\ requests' = requests + 1
  /\ editing' = id
  /\ gets' = gets \cup {id}
  /\ openDialog' = TRUE
  /\ subs' = Opened
  /\ UNCHANGED <<formData, mstatus, records, uiVars, storeVars, raceVars, sdkVars>>

\* a record request fails; the promise has no catch
GetFail(id) ==
  /\ id \in gets
  /\ gets' = gets \ {id}
  /\ UNCHANGED <<openDialog, editing, formData, requests, subs, mstatus, records,
                 uiVars, storeVars, raceVars, sdkVars>>

\* the record the server has arrives: the then-callback of
\* handleOpenDialog sets the form
GetArrive(id) ==
  /\ id \in gets
  /\ id \in DOMAIN records
  /\ formData' = records[id]
  /\ gets' = gets \ {id}
  /\ UNCHANGED <<openDialog, editing, requests, subs, mstatus, records,
                 uiVars, storeVars, raceVars, sdkVars>>

\* the user types into field f of the open dialog, or empties it
TypeField(f, v) ==
  /\ ListShown /\ openDialog
  /\ f \in FormFields(page)
  /\ formData[f] /= v
  /\ formData' = [formData EXCEPT ![f] = v]
  /\ UNCHANGED <<openDialog, editing, requests, gets, subs, mstatus, records,
                 uiVars, storeVars, raceVars, sdkVars>>

\* handleCloseDialog: the cancel button, or the dialog's onClose
HandleClose ==
  /\ ListShown /\ openDialog
  /\ openDialog' = FALSE
  /\ editing' = 0
  /\ formData' = Blank(page)
  /\ UNCHANGED <<requests, gets, subs, mstatus, records, uiVars, storeVars, raceVars, sdkVars>>

\* a submit button enabled as soon as one field is filled
SubmitEnabledAny(p, form) ==
  \E f \in FormFields(p) : form[f] /= ""

\* the submit button is not disabled
SubmitEnabled(p, form) ==
  \A f \in FormFields(p) : form[f] /= ""

\* the next mutate call of the page
NextSub == CHOOSE n \in 1..MaxRequests :
             /\ subs[n].st = "unused"
             /\ \A k \in 1..(n - 1) : subs[k].st /= "unused"

\* mutate of the hook of kind k with variables (id, body): the hook
\* reports on this call from now on
Mutated(k, id, body) ==
  [n \in 1..MaxRequests |->
     IF n = NextSub
     THEN [st |-> "sent", kind |-> k, id |-> id, body |-> body,
           observed |-> TRUE, cur |-> openDialog]
     ELSE IF subs[n].kind = k THEN [subs[n] EXCEPT !.observed = FALSE]
     ELSE subs[n]]

\* handleSubmit: updateMutation.mutate for the id being edited, else
\* createMutation.mutate, with the form as it is
HandleSubmit ==
  /\ ListShown /\ openDialog
  /\ SubmitEnabled(page, formData)
  /\ requests < MaxRequests
  /\ requests' = requests + 1
  /\ LET kind == IF editing /= 0 THEN "update" ELSE "create" IN
       /\ subs' = Mutated(kind, editing, formData)
       /\ mstatus' = [mstatus EXCEPT ![kind] = "pending"]
  /\ UNCHANGED <<openDialog, editing, formData, gets, records,
                 uiVars, storeVars, raceVars, sdkVars>>

\* handleDelete: the user confirms and deleteMutation.mutate(id) is called
HandleDelete(id) ==
  /\ ListShown /\ ~openDialog
  /\ requests < MaxRequests
  /\ requests' = requests + 1
  /\ subs' = Mutated("delete", id, Blank("none"))
  /\ mstatus' = [mstatus EXCEPT !["delete"] = "pending"]
  /\ UNCHANGED <<openDialog, editing, formData, gets, records,
                 uiVars, storeVars, raceVars, sdkVars>>

\* the server's copies of the listed rows after it applied the write s; a
\* record it creates is no row of RowIds
Applied(s) ==
  IF s.kind = "create" THEN records
  ELSE IF s.kind = "update"
  THEN [records EXCEPT ![s.id] = [f \in DOMAIN @ |-> IF f \in DOMAIN s.body THEN s.body[f] ELSE @[f]]]
  ELSE [i \in DOMAIN records \ {s.id} |-> records[i]]

\* a mutation whose response arrived
Finished == [NoSub EXCEPT !.st = "used"]

\* the server applies the write of a mutation and its response arrives:
\* the mutation's onSuccess
SubSuccess(n) ==
  LET kind == subs[n].kind IN
  /\ subs[n].st = "sent"
  /\ kind /= "create" => subs[n].id \in DOMAIN records
  /\ records' = Applied(subs[n])
  /\ subs' = [subs EXCEPT ![n] = Finished]
  /\ mstatus' = IF subs[n].observed THEN [mstatus EXCEPT ![kind] = "success"] ELSE mstatus
  /\ query' = [query EXCEPT ![InvalidatedKey(page)] = InvalidateQueries(@, TRUE)]
  /\ openDialog' = IF kind = "delete" THEN openDialog ELSE FALSE
  /\ formData' = IF kind = "delete" THEN formData ELSE Blank(page)
  /\ editing' = IF kind = "update" THEN 0 ELSE editing
  /\ UNCHANGED <<requests, gets, page, visits, srvRev, muts, storeVars, raceVars, sdkVars>>

\* the request of a mutation fails: no onError, the hook reports the error
\* of the call it reports on
SubFailure(n) ==
  /\ subs[n].st = "sent"
  /\ subs' = [subs EXCEPT ![n] = Finished]
  /\ mstatus' = IF subs[n].observed THEN [mstatus EXCEPT ![subs[n].kind] = "error"] ELSE mstatus
  /\ UNCHANGED <<openDialog, editing, formData, requests, gets, records,
                 uiVars, storeVars, raceVars, sdkVars>>

\* another client writes field f of record id, once
OtherWrite(id, f) ==
  /\ id \in DOMAIN records
  /\ f \in FormFields(page)
  /\ \A i \in DOMAIN records : \A g \in FormFields(page) : records[i][g] /= "o"
  /\ records' = [records EXCEPT ![id] = [@ EXCEPT ![f] = "o"]]
  /\ UNCHANGED <<openDialog, editing, formData, requests, gets, subs, mstatus,
                 uiVars, storeVars, raceVars, sdkVars>>

\* the alert under the dialog, '操作失败，请重试', is on the screen
AlertShown ==
  /\ ListShown
  /\ \E k \in Kinds : mstatus[k] = "error"

\* the dialogs while every request is answered
FormNext ==
  \/ \E p \in Resources : Mount(p)
  \/ \E r \in Resources : FetchServe(r)
  \/ \E r \in Resources : FetchDone(r)
  \/ HandleOpenCreate
  \/ \E id \in RowIds : HandleOpenEdit(id)
  \/ \E id \in RowIds : GetArrive(id)
  \/ \E f \in FormFields(page) : \E v \in {"", "u"} : TypeField(f, v)
  \/ HandleClose
  \/ HandleSubmit
  \/ \E n \in 1..MaxRequests : SubSuccess(n)

SpecForm == Init /\ [][FormNext]_vars

\* the dialogs, the delete buttons and requests that fail
DialogNext ==
  \/ \E p \in Resources : Mount(p)
  \/ \E r \in Resources : FetchServe(r)
  \/ \E r \in Resources : FetchGiveUp(r)
  \/ \E r \in Resources : FetchDone(r)
  \/ HandleOpenCreate
  \/ \E id \in RowIds : HandleOpenEdit(id)
  \/ \E id \in RowIds : GetFail(id)
  \/ \E id \in RowIds : GetArrive(id)
  \/ \E f \in FormFields(page) : \E v \in {"", "u"} : TypeField(f, v)
  \/ HandleClose
  \/ HandleSubmit
  \/ \E id \in RowIds : HandleDelete(id)
  \/ \E n \in 1..MaxRequests : SubSuccess(n)
  \/ \E n \in 1..MaxRequests : SubFailure(n)

SpecDialog == Init /\ [][DialogNext]_vars

\* an edit session while another client writes the listed records
SharedNext ==
  \/ \E p \in Resources : Mount(p)
  \/ \E r \in Resources : FetchServe(r)
  \/ \E r \in Resources : FetchDone(r)
  \/ \E id \in RowIds : HandleOpenEdit(id)
  \/ \E id \in RowIds : GetArrive(id)
  \/ \E f \in FormFields(page) : \E v \in {"", "u"} : TypeField(f, v)
  \/ HandleSubmit
  \/ \E n \in 1..MaxRequests : SubSuccess(n)
  \/ \E id \in RowIds : \E f \in FormFields(page) : OtherWrite(id, f)

SpecShared == Init /\ [][SharedNext]_vars

\* ---------------------------------------------------------------- claims
\* the step is the API call op
Called(op) == calls' = calls + 1 /\ resp'.op = op

Min(a, b) == IF a <= b THEN a ELSE b

\* C1: in the state a successful create leaves, get of the returned id
\* succeeds with a record whose supplied fields equal the create body and
\* whose created_at equals its updated_at, for both entity types.
C1_CreateThenGet ==
  (resp.op = "create" /\ resp.kind = "ok") =>
     LET g == DalGet(tables[resp.entity], resp.id)
     IN /\ g.kind = "ok"
        /\ g.body["id"] = resp.id
        /\ \A c \in DOMAIN resp.data : g.body[c] = resp.data[c]
        /\ g.body["created_at"] = g.body["updated_at"]

\* a prompt template was created, with all three fields, after the clock moved
C1_Witness ==
  /\ resp.op = "create" /\ resp.kind = "ok" /\ resp.entity = "prompt_template"
  /\ DOMAIN resp.data = {"name", "description", "system_prompt"}
  /\ now > 0
  /\ tables["prompt_template"][resp.id]["created_at"] = now

\* C2: a successful update gives exactly the fields of partial their
\* supplied values; the fields partial leaves out, the id and created_at keep
\* their values; no other record of either table changes.
C2_UpdateFrame ==
  [][ (Called("update") /\ resp'.kind = "ok") =>
        LET e == resp'.entity
            id == resp'.id
            p == resp'.data
        IN /\ id \in DOMAIN tables[e]
           /\ DOMAIN tables'[e] = DOMAIN tables[e]
           /\ \A c \in DOMAIN p : tables'[e][id][c] = p[c]
           /\ \A c \in (Columns(e) \ DOMAIN p) \cup {"id", "created_at"} :
                 tables'[e][id][c] = tables[e][id][c]
           /\ \A i \in DOMAIN tables[e] \ {id} : tables'[e][i] = tables[e][i]
           /\ \A f \in Entities \ {e} : tables'[f] = tables[f] ]_vars

\* a document was updated in its title only, a second after it was stored
C2_Witness ==
  /\ resp.op = "update" /\ resp.kind = "ok" /\ resp.entity = "document"
  /\ DOMAIN resp.data = {"title"}
  /\ tables["document"][resp.id]["title"] = <<"b">>
  /\ tables["document"][resp.id]["doc"] /= <<"b">>
  /\ tables["document"][resp.id]["updated_at"] > tables["document"][resp.id]["created_at"]

C4_GetIffLive ==
  /\ \A e \in Entities : \A id \in Ids :
        /\ DalGet(tables[e], id).kind = "ok" <=> (id \in issued[e] /\ id \notin removed[e])
        /\ DalGet(tables[e], id).kind \in {"ok", "not_found"}
  /\ (resp.op = "get" /\ resp.kind = "ok") =>
        (resp.id \in issued[resp.entity] /\ resp.id \notin removed[resp.entity])
  /\ (resp.op = "get" /\ resp.kind /= "ok") =>
        (resp.kind = "not_found"
           /\ (resp.id \notin issued[resp.entity] \/ resp.id \in removed[resp.entity]))

\* get of a deleted id answered not_found
C4_Witness ==
  /\ resp.op = "get" /\ resp.kind = "not_found"
  /\ resp.id \in removed[resp.entity]

\* C5: the id a create returns was never returned before for that entity
\* type, deleted or not.
C5_IdsNeverReused ==
  [][ (Called("create") /\ resp'.kind = "ok") =>
        /\ resp'.id \notin issued[resp'.entity]
        /\ resp'.id \notin removed[resp'.entity]
        /\ issued'[resp'.entity] = issued[resp'.entity] \cup {resp'.id} ]_vars

\* a create was answered after a record of that table had been deleted
C5_Witness ==
  /\ resp.op = "create" /\ resp.kind = "ok"
  /\ removed[resp.entity] /= {}

\* C6: delete of an id with no record fails with not_found and changes
\* nothing in the store; in particular delete of an id already deleted.
C6_DeleteAbsent ==
  [][ (Called("delete") /\ (resp'.id \notin DOMAIN tables[resp'.entity]
                             \/ resp'.id \in removed[resp'.entity])) =>
        /\ resp'.kind = "not_found"
        /\ tables' = tables
        /\ autoInc' = autoInc ]_vars

\* the same id was deleted a second time and the call failed
C6_Witness ==
  /\ resp.op = "delete" /\ resp.kind = "not_found"
  /\ resp.id \in removed[resp.entity]

\* C7: update of an id with no record fails with not_found, creates no
\* record and leaves every record as it was.
C7_UpdateAbsent ==
  [][ (Called("update") /\ resp'.id \notin DOMAIN tables[resp'.entity]) =>
        /\ resp'.kind = "not_found"
        /\ tables' = tables
        /\ autoInc' = autoInc ]_vars

\* an update with fields in it was refused for an id that has no record
C7_Witness ==
  /\ resp.op = "update" /\ resp.kind = "not_found"
  /\ DOMAIN resp.data /= {}
  /\ resp.id \notin DOMAIN tables[resp.entity]

\* C8: create fails with validation_error, and inserts nothing, when name or
\* system_prompt of a prompt template or doc of a document is missing or
\* empty; otherwise it succeeds, with description or title left out or not.
C8_CreateValidation ==
  [][ Called("create") =>
        LET d == resp'.data
            bad(c) == c \notin DOMAIN d \/ d[c] = <<>> \/ d[c] = NULL
            invalid == IF resp'.entity = "prompt_template"
                       THEN bad("name") \/ bad("system_prompt")
                       ELSE bad("doc")
        IN /\ invalid => /\ resp'.kind = "validation_error"
                         /\ tables' = tables
                         /\ autoInc' = autoInc
           /\ ~invalid => resp'.kind = "ok" ]_vars

\* a prompt template with an empty name was refused
C8_Witness ==
  /\ resp.op = "create" /\ resp.kind = "validation_error"
  /\ resp.entity = "prompt_template"
  /\ "name" \in DOMAIN resp.data /\ resp.data["name"] = <<>>
  /\ "system_prompt" \in DOMAIN resp.data /\ resp.data["system_prompt"] /= <<>>

\* C9: list(skip, limit) of documents answers the records at positions
\* skip+1 .. skip+limit of the documents in ascending id order, as many as
\* there are, never more than limit, and none at all when skip reaches the
\* record count.
C9_ListWindow ==
  (resp.op = "list" /\ resp.entity = "document") =>
     LET all == SortedIds(DOMAIN tables["document"])
         n == Len(all)
         r == resp.body
     IN /\ resp.kind = "ok"
        /\ \A i \in 1..(n - 1) : all[i] < all[i + 1]
        /\ Len(r) <= resp.limit
        /\ Len(r) = (IF resp.skip >= n THEN 0 ELSE Min(resp.limit, n - resp.skip))
        /\ \A i \in 1..Len(r) : r[i].id = all[resp.skip + i]

\* a list call skipped a record and was cut off by its limit
C9_Witness ==
  /\ resp.op = "list" /\ resp.entity = "document"
  /\ resp.skip = 1 /\ resp.limit = 1
  /\ Len(resp.body) = 1
  /\ Cardinality(DOMAIN tables["document"]) = 3

\* a list call whose skip is the record count was answered with no records
C9_WitnessEmpty ==
  /\ resp.op = "list" /\ resp.entity = "document"
  /\ resp.skip = Cardinality(DOMAIN tables["document"]) /\ resp.limit > 0
  /\ resp.body = <<>>

\* C10: count() of documents is the number of documents the schema script
\* and the create calls stored and no delete removed, whatever list calls
\* were made.
C10_CountLive ==
  /\ CountRows(tables["document"])
       = Cardinality(issued["document"]) - Cardinality(removed["document"])
  /\ removed["document"] \subseteq issued["document"]
  /\ (resp.op = "count") =>
        resp.body = Cardinality(issued["document"] \ removed["document"])

\* count was asked after the first seeded document had been deleted
C10_Witness ==
  /\ resp.op = "count" /\ resp.body = 1
  /\ removed["document"] = {1}

\* the text with the upper-case letters of the seed data lowered
C11_Lowered(text) ==
  [i \in 1..Len(text) |->
     CASE text[i] = "P" -> "p" [] text[i] = "R" -> "r" [] text[i] = "A" -> "a"
       [] text[i] = "G" -> "g" [] OTHER -> text[i]]

\* kw occurs in v somewhere, letter case aside
C11_Occurs(v, kw) ==
  /\ v /= NULL
  /\ \E i \in 1..(Len(v) - Len(kw) + 1) :
        SubSeq(C11_Lowered(v), i, i + Len(kw) - 1) = C11_Lowered(kw)

\* C11: search(keyword) answers exactly the documents whose title or doc
\* holds the keyword as a substring, letter case aside, each once; over the
\* seeded documents "Python" finds exactly the document titled
\* "Python...", and a keyword no document holds finds nothing.
C11_SearchExact ==
  (resp.op = "search") =>
     LET docs == tables["document"]
         r == resp.body
         kw == resp.data
     IN /\ resp.kind = "ok"
        /\ {r[i].id : i \in 1..Len(r)}
             = {id \in DOMAIN docs :
                  C11_Occurs(docs[id]["title"], kw) \/ C11_Occurs(docs[id]["doc"], kw)}
        /\ \A i, j \in 1..Len(r) : r[i].id = r[j].id => i = j
        /\ (docs = SeedTable("document") /\ kw \in {<<"P", "y">>, <<"p", "y">>}) =>
              (Len(r) = 1 /\ r[1].id = 1 /\ r[1].title = <<"P", "y", "Z">>)
        /\ (kw = <<"x">>) => r = <<>>

\* "python" in lower case was searched over the seeded documents and found
\* the one document titled "Python..."
C11_Witness ==
  /\ resp.op = "search" /\ resp.data = <<"p", "y">>
  /\ tables["document"] = SeedTable("document")
  /\ Len(resp.body) = 1 /\ resp.body[1].id = 1

\* C12: every document that list or search answers carries a doc_preview
\* that is a prefix of the stored doc, at most PreviewLen characters long,
\* and so not the whole doc when the doc is longer; get answers the whole doc.
C12_PreviewBounded ==
  /\ (resp.op \in {"list", "search"} /\ resp.entity = "document") =>
        \A i \in 1..Len(resp.body) :
           LET p == resp.body[i].doc_preview
               d == tables["document"][resp.body[i].id]["doc"]
           IN /\ Len(p) <= PreviewLen
              /\ Len(p) <= Len(d)
              /\ \A k \in 1..Len(p) : p[k] = d[k]
              /\ Len(d) <= PreviewLen => p = d
              /\ Len(d) > PreviewLen => p /= d
  /\ (resp.op = "get" /\ resp.entity = "document" /\ resp.kind = "ok") =>
        resp.body["doc"] = tables["document"][resp.id]["doc"]

\* a list answered a seeded document, whose doc is longer than the preview
C12_Witness ==
  /\ resp.op = "list" /\ resp.entity = "document"
  /\ Len(resp.body) > 0
  /\ Len(tables["document"][resp.body[1].id]["doc"]) > PreviewLen
  /\ Len(resp.body[1].doc_preview) = PreviewLen

\* C13: an API call on a prompt template changes no document, not the
\* documents' id counter and not their count, and a call on a document
\* changes no prompt template; a delete removes the one row and nothing else.
C13_Independent ==
  [][ (calls' = calls + 1) =>
        /\ \A f \in Entities \ {resp'.entity} :
              /\ tables'[f] = tables[f]
              /\ autoInc'[f] = autoInc[f]
        /\ resp'.entity = "prompt_template" =>
              CountRows(tables'["document"]) = CountRows(tables["document"])
        /\ (resp'.op = "delete" /\ resp'.kind = "ok") =>
              /\ DOMAIN tables'[resp'.entity] = DOMAIN tables[resp'.entity] \ {resp'.id}
              /\ \A i \in DOMAIN tables'[resp'.entity] :
                    tables'[resp'.entity][i] = tables[resp'.entity][i] ]_vars

\* a prompt template was deleted while the document of the same id is there
C13_Witness ==
  /\ resp.op = "delete" /\ resp.kind = "ok" /\ resp.entity = "prompt_template"
  /\ resp.id \in DOMAIN tables["document"]
  /\ resp.id \notin DOMAIN tables["prompt_template"]

\* the scenario's outcome when its create returned the id n
C14_Outcome(n) ==
  LET p == tables["prompt_template"] IN
  /\ calls >= 1 => resp.id = n
  /\ calls = 1 => (resp.op = "create" /\ resp.kind = "ok")
  /\ calls = 2 => /\ resp.op = "get" /\ resp.kind = "ok"
                  /\ resp.body["id"] = n
                  /\ resp.body["name"] = ScenarioBody.name
                  /\ resp.body["system_prompt"] = ScenarioBody.system_prompt
  /\ calls = 3 => /\ resp.op = "update" /\ resp.kind = "ok"
                  /\ p[n]["system_prompt"] = ScenarioBody.system_prompt
                  /\ p[n]["name"] = ScenarioBody.name
                  /\ p[n]["description"] = ScenarioUpdate.description
  /\ calls = 4 => (resp.op = "delete" /\ resp.kind = "ok" /\ n \notin DOMAIN p)
  /\ calls = 5 => (resp.op = "get" /\ resp.kind = "not_found")

\* C14 as stated: on the store the schema script initialised, the create
\* returns id 1 and the scenario runs on id 1.
C14_ScenarioIdOne == C14_Outcome(1)

\* C14, amended: on the store the schema script initialised, whose seed rows
\* hold ids 1 and 2, the create returns id 3; get(3) returns the created
\* fields, update(3, {description}) leaves system_prompt unchanged, and after
\* delete(3) get(3) fails with not_found.
C14_ScenarioIdThree == C14_Outcome(3)

\* the scenario ran to its last get, on id 3, with the seed rows untouched
C14_Witness ==
  /\ calls = 5 /\ resp.op = "get" /\ resp.kind = "not_found" /\ resp.id = 3
  /\ DOMAIN tables["prompt_template"] = {1, 2}
  /\ removed["prompt_template"] = {3}

\* C19: every record of either table has updated_at >= created_at.
C19_UpdatedNotBeforeCreated ==
  \A e \in Entities : \A id \in DOMAIN tables[e] :
     tables[e][id]["updated_at"] >= tables[e][id]["created_at"]

\* a record stored after the clock moved, its timestamps equal and not zero
C19_Witness ==
  \E e \in Entities : \E id \in DOMAIN tables[e] :
     /\ tables[e][id]["created_at"] > 0
     /\ tables[e][id]["updated_at"] = tables[e][id]["created_at"]

C17_Logged == {log[i] : i \in 1..Len(log)}

\* C17: a wrapper whose API call failed rejects with the error the
\* transport produced, unchanged: the response interceptor passes it on
\* after logging it, a try/catch wrapper logs it again and rethrows it, and
\* the call never settles fulfilled or with another error
C17_ErrorsSurface ==
  /\ (sdk.stage \in {"intercepted", "settled"} /\ ~sdk.outcome.ok) =>
       /\ sdk.passed = sdk.outcome
       /\ ResponseLog(sdk.outcome) \in C17_Logged
       /\ "log: Response" \notin C17_Logged
  /\ (sdk.stage = "settled" /\ ~sdk.outcome.ok) =>
       /\ sdk.result.state = "rejected"
       /\ sdk.result.value = sdk.outcome.error
       /\ HasTryCatch(sdk.api, sdk.fn) => log[Len(log)] = "error: Failed to fetch"

\* modelApi.list has rejected with the 404 error, logged twice
C17_Witness ==
  /\ sdk.stage = "settled" /\ sdk.api = "modelApi" /\ sdk.fn = "list"
  /\ sdk.outcome.error.status = 404
  /\ sdk.result.state = "rejected" /\ sdk.result.value.kind = "not_found"
  /\ log = <<"log: Fetching", "log: Request", "error: API Error status",
             "error: Failed to fetch">>

\* the five operations of the contract
C18_Shape == {"list", "get", "create", "update", "delete"}

\* the request the contract names for operation fn of wrapper object api
\* called with a
C18_Contract(api, fn, a) ==
  LET res == ResourceOf(api) IN
  CASE fn = "list" -> [method |-> "get", url |-> <<res, "list">>]
    [] fn = "get" -> [method |-> "get", url |-> <<res, IdText(a.id)>>]
    [] fn = "create" -> [method |-> "post", url |-> <<res, "create">>]
    [] fn = "update" -> [method |-> "put", url |-> <<res, IdText(a.id)>>]
    [] fn = "delete" -> [method |-> "delete", url |-> <<res, IdText(a.id)>>]

\* the request sent is the contract's
C18_Follows ==
  /\ [method |-> sdk.req.method, url |-> sdk.req.url] = C18_Contract(sdk.api, sdk.fn, sdk.arg)
  /\ sdk.fn \in {"get", "update", "delete"} => sdk.arg.id \in Ids

\* C18 as stated: every list, get, create, update and delete wrapper of the
\* three wrapper objects sends the request of the contract, get with the
\* record's integer id
C18_IdenticalShape ==
  (sdk.stage \notin {"idle", "request"} /\ sdk.fn \in C18_Shape) => C18_Follows

\* C18 as amended: promptApi and documentApi send the contract's request
\* for all five operations, and modelApi for create, update and delete;
\* modelApi.list requests GET /models/ and modelApi.get requests
\* GET /models/{name} with the value it was passed
C18_WrapperRequests ==
  (sdk.stage \notin {"idle", "request"} /\ sdk.fn \in C18_Shape) =>
    IF sdk.api = "modelApi" /\ sdk.fn = "list"
    THEN sdk.req.method = "get" /\ sdk.req.url = <<"models", "">>
    ELSE IF sdk.api = "modelApi" /\ sdk.fn = "get"
    THEN /\ sdk.req.method = "get"
         /\ sdk.req.url = <<"models", IF sdk.arg.text /= "" THEN sdk.arg.text
                                    ELSE IdText(sdk.arg.id)>>
    ELSE C18_Follows

\* modelApi.list and a documentApi.update have been sent
C18_Witness ==
  /\ sdk.stage = "sent" /\ sdk.api = "modelApi" /\ sdk.fn = "list"
  /\ sdk.req.url = <<"models", "">>

C18_WitnessUpdate ==
  /\ sdk.stage = "sent" /\ sdk.api = "documentApi" /\ sdk.fn = "update"
  /\ sdk.req.method = "put" /\ sdk.req.url = <<"documents", "2">>

\* the page of resource r shows a settled list: it is the shown page, its
\* query succeeded, is neither fetching nor invalidated, no mutation of r
\* awaits its response, and no invalidation reached the query while it was
\* unobserved with a fetch in flight
C20_Settled(r) ==
  /\ page = r
  /\ query[r].status = "success" /\ query[r].fetch = "none"
  /\ ~query[r].invalidated /\ ~query[r].raced
  /\ \A m \in 1..MaxMutations : muts[m].res = r => muts[m].st \notin {"sent", "committed"}

C20_WitnessRefetched ==
  /\ C20_Settled("documents") /\ muts[1].st = "done"
  /\ srvRev["documents"] = 1 /\ query["documents"].data = 1

\* the request the wrapper built, before the interceptor ran
C23_Built == Request(sdk.api, sdk.fn, sdk.arg)

\* C23: the request interceptor adds the parameter _t, holding the time of
\* the call, to every GET request and keeps every parameter the wrapper
\* passed with its value; it leaves the parameters of POST, PUT and DELETE
\* requests, and the method, path and body of every request, as they were
C23_TimestampFrame ==
  [][ (sdk.stage = "request" /\ sdk'.stage = "sent") =>
        /\ sdk'.req.method = C23_Built.method
        /\ sdk'.req.url = C23_Built.url
        /\ sdk'.req.data = C23_Built.data
        /\ IF C23_Built.method = "get"
           THEN /\ DOMAIN sdk'.req.params = DOMAIN C23_Built.params \cup {"_t"}
                /\ sdk'.req.params["_t"] = now
                /\ \A n \in DOMAIN C23_Built.params : sdk'.req.params[n] = C23_Built.params[n]
           ELSE sdk'.req.params = C23_Built.params
    ]_vars

\* documentApi.list(3, 2) was sent at second 1 with skip, limit and _t
C23_Witness ==
  /\ sdk.stage = "sent" /\ sdk.api = "documentApi" /\ sdk.fn = "list"
  /\ sdk.req.params = [skip |-> 3, limit |-> 2, _t |-> 1]

\* a PUT was sent with its body and without parameters
C23_WitnessPut ==
  /\ sdk.stage = "sent" /\ sdk.req.method = "put"
  /\ sdk.req.params = NoParams /\ sdk.req.data = "body"

\* C24: the Documents list query makes at most 3 attempts, 2 of them
\* retries: a failed attempt is followed by another one while fewer than 2
\* retries were made, and the failure of the third attempt puts the query in
\* the error state; in the error state the page renders the error alert, not
\* the table and the create button, and the table is rendered only over data
\* a fetch delivered
C24_RetryTwice ==
  [][ LET q == query["documents"]
          qn == query'["documents"] IN
      /\ qn.failures <= 3
      /\ qn.fetch = "sent" => qn.failures <= 2
      /\ (q.fetch = "sent" /\ qn.failures = q.failures + 1) =>
           IF q.failures < 2
           THEN qn.fetch = "sent" /\ qn.status = q.status
           ELSE qn.fetch = "none" /\ qn.status = "error"
      /\ qn.status = "error" => View(qn) = "error"
      /\ View(qn) = "list" => qn.data /= -1 /\ qn.status = "success"
    ]_vars

\* the first load of the Documents page has failed three times: the page
\* shows the error alert and holds no data
C24_Witness ==
  /\ page = "documents"
  /\ query["documents"].failures = 3 /\ query["documents"].fetch = "none"
  /\ query["documents"].status = "error" /\ query["documents"].data = -1
  /\ View(query["documents"]) = "error"

\* a refetch of a loaded Documents list has failed three times
C24_WitnessRefetch ==
  /\ page = "documents"
  /\ query["documents"].failures = 3 /\ query["documents"].data = 0
  /\ View(query["documents"]) = "error"

\* the step calls mutate for the n-th time, a create or an update
Submits(n) ==
  /\ subs[n].st = "unused"
  /\ subs'[n].st = "sent"
  /\ subs'[n].kind \in {"create", "update"}

\* C21: every create or update the page sends carries exactly the fields
\* of the page's form, none of them empty: title and doc on the Documents
\* page, name, description and system_prompt on the Prompts page, name and
\* description on the Models page.
C21_SubmitNonEmpty ==
  [][ \A n \in 1..MaxRequests :
        Submits(n) =>
          /\ DOMAIN subs'[n].body = FormFields(page)
          /\ \A f \in FormFields(page) : subs'[n].body[f] /= ""
          /\ SubmitEnabled(page, formData) ]_vars

\* the Prompts page sent an update of a record whose name the user retyped
C21_Witness ==
  /\ page = "prompts"
  /\ \E n \in 1..MaxRequests :
        /\ subs[n].st = "sent" /\ subs[n].kind = "update" /\ subs[n].id = 1
        /\ subs[n].body = [name |-> "u", description |-> "r1", system_prompt |-> "r1"]

\* the Models dialog shows a loaded record with its description emptied: the
\* submit button is disabled
C21_WitnessDisabled ==
  /\ page = "models" /\ openDialog /\ editing = 2
  /\ formData = [name |-> "r2", description |-> ""]
  /\ ~SubmitEnabled(page, formData)

\* C22: when a create, update or delete fails, the step leaves openDialog,
\* the editing id and the form as they were, does not invalidate the list
\* query, and the page shows the alert '操作失败，请重试'.
C22_FailureAlert ==
  [][ \A n \in 1..MaxRequests :
        SubFailure(n) =>
          /\ openDialog' = openDialog
          /\ editing' = editing
          /\ formData' = formData
          /\ query' = query
          /\ AlertShown' ]_vars

\* C25: on the Documents and the Prompts page, in every reachable state in
\* which the dialog is closed the editing id is null and the form is blank.
C25_ClosedIsBlank ==
  (page \in {"documents", "prompts"} /\ ~openDialog) =>
     (editing = 0 /\ formData = Blank(page))

\* C26: the data of every update(id, data) that handleSubmit issues comes
\* from the record with that id, as get(id) loaded it and the user edited
\* it, and the data of every create holds only what the user entered: no
\* field of either holds the contents of another record.
C26_FormOrigin ==
  [][ \A n \in 1..MaxRequests :
        Submits(n) =>
          \A f \in FormFields(page) :
             IF subs'[n].kind = "update"
             THEN subs'[n].body[f] \in {"u", RecText(subs'[n].id)}
             ELSE subs'[n].body[f] = "u" ]_vars

\* C27: one opening of the create dialog has at most one create request
\* pending: handleSubmit issues no second create while the first one of
\* the same opening is pending.
C27_OneCreatePerOpening ==
  Cardinality({n \in 1..MaxRequests :
                 subs[n].st = "sent" /\ subs[n].kind = "create" /\ subs[n].cur}) <= 1

\* C28: an update the page sends for an edit session does not overwrite the
\* change another client made, after the session's get, to a field the user
\* did not change: when the server applies the update, a field that holds
\* the other client's text and that the user did not type keeps it.
C28_KeepsOtherChange ==
  [][ \A n \in 1..MaxRequests :
        (SubSuccess(n) /\ subs[n].kind = "update") =>
          \A f \in FormFields(page) :
             (records[subs[n].id][f] = "o" /\ subs[n].body[f] /= "u")
                => records'[subs[n].id][f] = "o" ]_vars
====
